---- MODULE Spec2Model ----
(***************************************************************************)
(* Model of the microbench command of ferrisbot-for-discord                *)
(* (src/src/commands/playground/microbench.rs):                            *)
(*   - the command handler `microbench`, as one invocation record per      *)
(*     concurrent invocation, stepped from await to await (Spec);          *)
(*   - the pure functions extract_pub_fn_names_from_user_code and the      *)
(*     synthesis of `after_code`, on bounded inputs (SpecSynth);           *)
(*   - the generated `bench` function held in BENCH_FUNCTION, as the       *)
(*     state machine it is when the backend runs it (SpecBench).           *)
(***************************************************************************)
EXTENDS Integers, Sequences, FiniteSets, TLC

VARIABLES
    inv,                    \* microbench: invocation id -> its locals and position
    data,                   \* types.rs Data, shared by every invocation (ctx.data())
    code,                   \* SpecSynth: argument of extract_pub_fn_names_from_user_code
    names,                  \* SpecSynth: its return value
    driver,                 \* SpecSynth: after_code built from names
    epc,                    \* SpecSynth: position
    functions,              \* bench: the slice passed by the generated main
    functions_chunk_times,  \* bench: one Vec of samples per function
    now,                    \* bench: the last value read from Instant::now()
    start,                  \* bench: `start` of line 28
    chunk_begin,            \* bench: the inner `start` of line 31
    fi,                     \* bench: index of the for loop over functions
    calls,                  \* bench: number of calls made to each function
    push_log,               \* bench: history, the function index of every push, in order
    printed,                \* bench: the lines printed so far
    bpc                     \* bench: position

pipeVars  == <<inv, data>>
synthVars == <<code, names, driver, epc>>
benchVars == <<functions, functions_chunk_times, now, start, chunk_begin, fi, calls,
               push_log, printed, bpc>>
vars == <<inv, data, code, names, driver, epc, functions, functions_chunk_times, now,
          start, chunk_begin, fi, calls, push_log, printed, bpc>>

(***************************************************************************)
(* Source text.  A text is the sequence of its top-level elements; an      *)
(* element records what syn's parser and the substring test can see of it. *)
(***************************************************************************)
Element(kind, vis, ident, inputs, inner, bb) ==
    [kind |-> kind, vis |-> vis, ident |-> ident, inputs |-> inputs,
     inner |-> inner, black_box |-> bb]

\* pub fn add() { black_box(..) } and pub fn mul(x: f64) { .. }
PubAdd      == Element("fn", "pub", "add", 0, "", TRUE)
PubMul      == Element("fn", "pub", "mul", 1, "", FALSE)
\* fn helper() {}  and  pub(crate) fn add() {}
PrivHelper  == Element("fn", "inherited", "helper", 0, "", FALSE)
CrateAdd    == Element("fn", "pub_crate", "add", 0, "", FALSE)
\* pub struct add;   and   pub mod m { pub fn inner() {} }
PubStruct   == Element("struct", "pub", "add", 0, "", FALSE)
PubMod      == Element("mod", "pub", "m", 0, "inner", FALSE)
\* text that is no item, and a crate attribute  #![feature(..)]
Garbage     == Element("garbage", "inherited", "", 0, "", FALSE)
InnerAttr   == Element("inner_attr", "inherited", "", 0, "", FALSE)

ElementUniverse ==
    {PubAdd, PubMul, PrivHelper, CrateAdd, PubStruct, PubMod, Garbage, InnerAttr}

\* longest source text of SpecSynth, in elements
MaxItems == 3

SeqsUpTo(S, n) == UNION {[1..k -> S] : k \in 0..n}

\* user_code.contains("black_box")
Contains_black_box(text) == \E k \in DOMAIN text : text[k].black_box

\* the leading run of crate attributes of a text
RECURSIVE AttrRunLen(_)
AttrRunLen(text) ==
    IF text = <<>> \/ Head(text).kind # "inner_attr" THEN 0
    ELSE 1 + AttrRunLen(Tail(text))

\* syn::parse_file: Err on text that is no item, and on an inner attribute
\* after the first item; otherwise the items, the crate attributes apart.
parse_ok(text) ==
    \A k \in DOMAIN text :
        /\ text[k].kind # "garbage"
        /\ text[k].kind = "inner_attr" => k <= AttrRunLen(text)

file_items(text) == SubSeq(text, AttrRunLen(text) + 1, Len(text))

\* the filter_map of lines 156-166, one item at a time
RECURSIVE filter_map_pub_fn(_)
filter_map_pub_fn(items) ==
    IF items = <<>> THEN <<>>
    ELSE LET item == Head(items)
             rest == filter_map_pub_fn(Tail(items))
         IN  IF item.kind = "fn" /\ item.vis = "pub"
             THEN <<item.ident>> \o rest
             ELSE rest

\* mutant: the visibility test is left out
extract_any_fn(text) ==
    IF ~parse_ok(text) THEN <<>>
    ELSE LET items == file_items(text)
             IsFn(k) == items[k].kind = "fn"
             RECURSIVE pick(_)
             pick(k) == IF k > Len(items) THEN <<>>
                        ELSE IF IsFn(k) THEN <<items[k].ident>> \o pick(k + 1)
                        ELSE pick(k + 1)
         IN  pick(1)

extract_pub_fn_names_from_user_code(text) ==
    IF ~parse_ok(text) THEN <<>>
    ELSE filter_map_pub_fn(file_items(text))

(***************************************************************************)
(* after_code (lines 86-92), as the sequence of its lines.                 *)
(***************************************************************************)
Text(t) == [kind |-> "text", label |-> t, function |-> ""]
\* ("{function_name}", {function_name}),
Registration(function_name) ==
    [kind |-> "reg", label |-> function_name, function |-> function_name]

RECURSIVE writeln_each(_)
writeln_each(fns) ==
    IF fns = <<>> THEN <<>>
    ELSE <<Registration(Head(fns))>> \o writeln_each(Tail(fns))

\* mutant: a name already registered is skipped
RECURSIVE writeln_once(_, _)
writeln_once(fns, seen) ==
    IF fns = <<>> THEN <<>>
    ELSE IF Head(fns) \in seen THEN writeln_once(Tail(fns), seen)
    ELSE <<Registration(Head(fns))>> \o writeln_once(Tail(fns), seen \cup {Head(fns)})

synthesize_dedup(fns) ==
    <<Text("BENCH_FUNCTION"), Text("fn main() {"), Text("bench(&[")>>
        \o writeln_once(fns, {}) \o <<Text("]);"), Text("}")>>

synthesize(fns) ==
    <<Text("BENCH_FUNCTION"), Text("fn main() {"), Text("bench(&[")>>
        \o writeln_each(fns) \o <<Text("]);"), Text("}")>>

(***************************************************************************)
(* Collaborators of microbench in commands/playground/util.rs and api.rs.  *)
(***************************************************************************)
Channels == {"stable", "beta", "nightly"}
Editions == {"2015", "2018", "2021"}
Modes    == {"debug", "release"}
DefaultFlags == [channel |-> "nightly", edition |-> "2021", mode |-> "debug", warn |-> FALSE]

\* poise::KeyValueArgs: a map from key to value
NoArgs == [k \in {} |-> ""]
FlagInputs ==
    { NoArgs,
      "mode" :> "debug",
      ("channel" :> "stable") @@ ("mode" :> "debug") @@ ("warn" :> "true"),
      ("edition" :> "2018") @@ ("bogus" :> "1") @@ ("mode" :> "release"),
      "channel" :> "weird" }
AllKeys == <<"bogus", "channel", "edition", "mode", "warn">>

LegalValues(key) ==
    CASE key = "channel" -> Channels
      [] key = "edition" -> Editions
      [] key = "mode"    -> Modes
      [] key = "warn"    -> {"true", "false"}
      [] OTHER           -> {}

FlagValue(args, key) ==
    IF key \in DOMAIN args /\ args[key] \in LegalValues(key) THEN args[key]
    ELSE IF key = "warn" THEN "false" ELSE DefaultFlags[key]

\* parse_flags: total; an unknown key or an illegal value becomes a warning
parse_flags(args) ==
    LET Bad(k) == k \in DOMAIN args /\ args[k] \notin LegalValues(k)
        Keep(k) == Bad(k)
    IN  [flags  |-> [channel |-> FlagValue(args, "channel"),
                     edition |-> FlagValue(args, "edition"),
                     mode    |-> FlagValue(args, "mode"),
                     warn    |-> FlagValue(args, "warn") = "true"],
         errors |-> SelectSeq(AllKeys, Keep)]

after_crate_attrs == Text("#[allow(unused_imports)] use std::hint::black_box;")

\* hoise_crate_attributes: crate attributes, prologue, the rest, epilogue
hoise_crate_attributes(text, after_attrs, after) ==
    SubSeq(text, 1, AttrRunLen(text)) \o <<after_attrs>>
        \o SubSeq(text, AttrRunLen(text) + 1, Len(text)) \o after

\* format_play_eval_stderr: warning lines are dropped unless warn is set
format_play_eval_stderr(stderr, warn) ==
    LET Kept(line) == line # "warning"
    IN  IF warn THEN stderr ELSE SelectSeq(stderr, Kept)

Hint == "Hint: use the black_box function"

(***************************************************************************)
(* The execution backend: what comes back for a posted request.            *)
(***************************************************************************)
Body(wellformed, success, stdout, stderr) ==
    [wellformed |-> wellformed, success |-> success, stdout |-> stdout, stderr |-> stderr]
NoBody == Body(FALSE, FALSE, "", <<>>)
Bodies ==
    { Body(TRUE, TRUE, "timings", <<>>),
      Body(TRUE, TRUE, "timings", <<"warning">>),
      Body(TRUE, FALSE, "", <<"warning", "error">>),
      Body(FALSE, FALSE, "<html>", <<>>) }

PlayResult(success, stdout, stderr) ==
    [success |-> success, stdout |-> stdout, stderr |-> stderr]
NoResult == PlayResult(FALSE, "", <<>>)

\* mutant: mode is taken from the flags like channel and edition
PlaygroundRequestFlagMode(text, flags) ==
    [code |-> text, channel |-> flags.channel, crate_type |-> "binary",
     edition |-> flags.edition, mode |-> flags.mode, tests |-> FALSE]

\* lines 102-109
PlaygroundRequest(text, flags) ==
    [code |-> text, channel |-> flags.channel, crate_type |-> "binary",
     edition |-> flags.edition, mode |-> "release", tests |-> FALSE]

NoReport == [delivered |-> FALSE, result |-> NoResult, code |-> <<>>,
             flags |-> DefaultFlags, errors |-> <<>>]
\* send_reply(ctx, result, &code, &flags, &flag_parse_errors)
Reply(result, text, flags, errors) ==
    [delivered |-> TRUE, result |-> result, code |-> text, flags |-> flags,
     errors |-> errors]

(***************************************************************************)
(* One invocation of microbench: its arguments, its locals, what it sent   *)
(* and what it returned.                                                   *)
(***************************************************************************)
Invocations == {"a", "b"}

SrcEmpty    == <<>>
SrcBroken   == <<PubAdd, Garbage, PubMul>>
SrcSingle   == <<PrivHelper, PubMod, PubMul>>
SrcAddMul   == <<PubAdd, PubMul>>
SrcAttrDup  == <<InnerAttr, PubMul, CrateAdd, PubMul>>
CodeBlocks  == {SrcEmpty, SrcBroken, SrcSingle, SrcAddMul, SrcAttrDup}

Invocation(flags, text) ==
    [pc |-> "say_stub", flags |-> flags, user_code |-> text,
     black_box_hint |-> FALSE, pub_fn_names |-> <<>>, after_code |-> <<>>,
     code |-> <<>>, parsed |-> DefaultFlags, flag_parse_errors |-> <<>>,
     requests |-> <<>>, transport |-> "none", body |-> NoBody,
     result |-> NoResult, said |-> <<>>, report |-> NoReport, ret |-> "pending"]

Return(r, value) == [r EXCEPT !.pc = "returned", !.ret = value]

\* line 65: ctx.say(stub_message(ctx)).await?
SayStubStep(r, ok) ==
    IF ok THEN [r EXCEPT !.said = Append(@, "stub"), !.pc = "extract"]
    ELSE Return(r, "Err_chat")

\* mutant: a source that does not parse is an error of the command
ExtractStepParseError(r) ==
    IF ~parse_ok(r.user_code) THEN Return(r, "Err_parse")
    ELSE [r EXCEPT !.black_box_hint = ~Contains_black_box(r.user_code),
                   !.pub_fn_names = extract_pub_fn_names_from_user_code(r.user_code),
                   !.pc = "match_len"]

\* lines 67-73
ExtractStep(r) ==
    [r EXCEPT !.black_box_hint = ~Contains_black_box(r.user_code),
              !.pub_fn_names = extract_pub_fn_names_from_user_code(r.user_code),
              !.pc = "match_len"]

\* mutant: only the empty list short-circuits
match_len_only_zero(n) ==
    IF n = 0 THEN "say_none" ELSE "synthesize"

\* lines 74-84: match pub_fn_names.len()
match_len(n) ==
    IF n = 0 THEN "say_none"
    ELSE IF n = 1 THEN "say_single"
    ELSE "synthesize"

MatchLenStep(r) == [r EXCEPT !.pc = match_len(Len(r.pub_fn_names))]

\* lines 76-77 and 80-81: ctx.say(..).await?; return Ok(())
SayShortStep(r, message, ok) ==
    IF ok THEN Return([r EXCEPT !.said = Append(@, message)], "Ok")
    ELSE Return(r, "Err_chat")

\* lines 87-92
SynthesizeStep(r) ==
    [r EXCEPT !.after_code = synthesize(r.pub_fn_names), !.pc = "compose"]

\* mutant: after_code lives in one buffer that every invocation writes
after_code_shared(i) ==
    LET written == {j \in Invocations : inv[j].after_code # <<>>}
    IN  inv[CHOOSE j \in written : TRUE].after_code

\* the local after_code of invocation i
after_code_of(i) == inv[i].after_code

\* line 95
ComposeStep(r, after) ==
    [r EXCEPT !.code = hoise_crate_attributes(r.user_code, after_crate_attrs, after),
              !.pc = "post"]

\* lines 97-110: parse_flags, then the request is built and sent
PostStep(r) ==
    LET p == parse_flags(r.flags)
    IN  [r EXCEPT !.parsed = p.flags, !.flag_parse_errors = p.errors,
                  !.requests = Append(@, PlaygroundRequest(r.code, p.flags)),
                  !.pc = "await_send"]

\* mutant: a failed call is swallowed and an empty result is reported
OnTransportErrorDefault(r, error) ==
    [r EXCEPT !.transport = error, !.pc = "format"]

\* the `?` of lines 111 and 113
OnTransportError(r, error) ==
    Return([r EXCEPT !.transport = error], error)

\* line 111: .send().await?
AwaitSendStep(r, ok, body) ==
    IF ok THEN [r EXCEPT !.body = body, !.pc = "await_json"]
    ELSE OnTransportError(r, "Err_send")

\* lines 112-113: .json().await?
AwaitJsonStep(r) ==
    IF r.body.wellformed
    THEN [r EXCEPT !.transport = "ok",
                   !.result = PlayResult(r.body.success, r.body.stdout, r.body.stderr),
                   !.pc = "format"]
    ELSE OnTransportError(r, "Err_decode")

\* lines 115-119
FormatStep(r) ==
    [r EXCEPT !.result.stderr = format_play_eval_stderr(r.result.stderr, r.parsed.warn),
              !.flag_parse_errors = IF r.black_box_hint THEN Append(@, Hint) ELSE @,
              !.pc = "send_reply"]

\* line 120: send_reply(..).await
SendReplyStep(r, ok) ==
    IF ok
    THEN Return([r EXCEPT !.said = Append(@, "report"),
                          !.report = Reply(r.result, r.code, r.parsed, r.flag_parse_errors)],
                "Ok")
    ELSE Return(r, "Err_chat")

\* types.rs Data::new
Data_new == [http |-> "reqwest::Client", godbolt_metadata |-> "default"]

(***************************************************************************)
(* Spec: concurrent invocations of microbench on the single-threaded       *)
(* runtime of main.rs (line 36); an invocation yields at its awaits.       *)
(***************************************************************************)
SynthIdle == code = <<>> /\ names = <<>> /\ driver = <<>> /\ epc = "idle"
BenchIdle ==
    /\ functions = <<>> /\ functions_chunk_times = <<>> /\ now = 0 /\ start = 0
    /\ chunk_begin = 0 /\ fi = 0 /\ calls = <<>> /\ push_log = <<>>
    /\ printed = <<>> /\ bpc = "idle"

PipeIdle ==
    /\ inv = [i \in Invocations |-> Invocation(NoArgs, <<>>)]
    /\ data = Data_new

Init ==
    /\ inv \in [Invocations -> {Invocation(f, c) : f \in FlagInputs, c \in CodeBlocks}]
    /\ data = Data_new
    /\ SynthIdle /\ BenchIdle

Step(i, r) ==
    /\ inv' = [inv EXCEPT ![i] = r]
    /\ UNCHANGED <<data, synthVars, benchVars>>

SayStub(i) ==
    /\ inv[i].pc = "say_stub"
    /\ \E ok \in BOOLEAN : Step(i, SayStubStep(inv[i], ok))

Extract(i) ==
    /\ inv[i].pc = "extract"
    /\ Step(i, ExtractStep(inv[i]))

MatchLen(i) ==
    /\ inv[i].pc = "match_len"
    /\ Step(i, MatchLenStep(inv[i]))

SayNone(i) ==
    /\ inv[i].pc = "say_none"
    /\ \E ok \in BOOLEAN : Step(i, SayShortStep(inv[i], "no_pub_fn", ok))

SaySingle(i) ==
    /\ inv[i].pc = "say_single"
    /\ \E ok \in BOOLEAN : Step(i, SayShortStep(inv[i], "single_fn", ok))

Synthesize(i) ==
    /\ inv[i].pc = "synthesize"
    /\ Step(i, SynthesizeStep(inv[i]))

Compose(i) ==
    /\ inv[i].pc = "compose"
    /\ Step(i, ComposeStep(inv[i], after_code_of(i)))

Post(i) ==
    /\ inv[i].pc = "post"
    /\ Step(i, PostStep(inv[i]))

AwaitSend(i) ==
    /\ inv[i].pc = "await_send"
    /\ \/ Step(i, AwaitSendStep(inv[i], FALSE, NoBody))
       \/ \E body \in Bodies : Step(i, AwaitSendStep(inv[i], TRUE, body))

AwaitJson(i) ==
    /\ inv[i].pc = "await_json"
    /\ Step(i, AwaitJsonStep(inv[i]))

Format(i) ==
    /\ inv[i].pc = "format"
    /\ Step(i, FormatStep(inv[i]))

SendReply(i) ==
    /\ inv[i].pc = "send_reply"
    /\ \E ok \in BOOLEAN : Step(i, SendReplyStep(inv[i], ok))

Next ==
    \E i \in Invocations :
        \/ SayStub(i) \/ Extract(i) \/ MatchLen(i) \/ SayNone(i) \/ SaySingle(i)
        \/ Synthesize(i) \/ Compose(i) \/ Post(i) \/ AwaitSend(i) \/ AwaitJson(i)
        \/ Format(i) \/ SendReply(i)

Spec == Init /\ [][Next]_vars

(***************************************************************************)
(* SpecSynth: extract_pub_fn_names_from_user_code on every text of at most *)
(* MaxItems elements, and the synthesis of after_code from its result.     *)
(***************************************************************************)
InitSynth ==
    /\ code \in SeqsUpTo(ElementUniverse, MaxItems)
    /\ names = <<>> /\ driver = <<>> /\ epc = "extract"
    /\ PipeIdle /\ BenchIdle

ExtractNames ==
    /\ epc = "extract"
    /\ names' = extract_pub_fn_names_from_user_code(code)
    /\ epc' = match_len(Len(extract_pub_fn_names_from_user_code(code)))
    /\ UNCHANGED <<code, driver, pipeVars, benchVars>>

SynthesizeDriver ==
    /\ epc = "synthesize"
    /\ driver' = synthesize(names)
    /\ epc' = "done"
    /\ UNCHANGED <<code, names, pipeVars, benchVars>>

NextSynth == ExtractNames \/ SynthesizeDriver

SpecSynth == InitSynth /\ [][NextSynth]_vars

(***************************************************************************)
(* Properties of microbench (Spec).                                        *)
(***************************************************************************)
ShortInput(r) == Len(extract_pub_fn_names_from_user_code(r.user_code)) <= 1
ShortMessage(r) ==
    IF Len(extract_pub_fn_names_from_user_code(r.user_code)) = 0
    THEN "no_pub_fn" ELSE "single_fn"
NeverExecutes(r) ==
    /\ r.requests = <<>> /\ r.after_code = <<>> /\ r.code = <<>>
    /\ r.transport = "none" /\ ~r.report.delivered
    /\ r.pc \in {"say_stub", "extract", "match_len", "say_none", "say_single", "returned"}

\* C1 as stated: an invocation whose source yields 0 or 1 names makes no
\* backend call, synthesizes and composes nothing, and ends having sent the
\* short-circuit message of its case.
C1_ShortCircuitAlwaysSends ==
    \A i \in Invocations :
        ShortInput(inv[i]) =>
            /\ NeverExecutes(inv[i])
            /\ inv[i].pc = "returned" =>
                   /\ inv[i].ret = "Ok"
                   /\ inv[i].said = <<"stub", ShortMessage(inv[i])>>

\* C1 amended: an invocation whose source yields 0 or 1 names makes no backend
\* call and synthesizes and composes nothing; it ends either with Ok after
\* sending the short-circuit message of its case, or with the error of a chat
\* send that failed (the stub message or the short-circuit message itself).
C1_ShortCircuit ==
    \A i \in Invocations :
        ShortInput(inv[i]) =>
            /\ NeverExecutes(inv[i])
            /\ inv[i].pc = "returned" =>
                   \/ inv[i].ret = "Ok" /\ inv[i].said = <<"stub", ShortMessage(inv[i])>>
                   \/ inv[i].ret = "Err_chat" /\ inv[i].said \in {<<>>, <<"stub">>}
            /\ ShortMessage(inv[i]) \in {inv[i].said[k] : k \in DOMAIN inv[i].said}
                   => inv[i].pc = "returned"

C1_Witness ==
    \E i, j \in Invocations :
        /\ inv[i].pc = "returned" /\ inv[i].ret = "Ok"
        /\ inv[i].said = <<"stub", "single_fn">>
        /\ inv[j].pc = "returned" /\ inv[j].ret = "Ok"
        /\ inv[j].said = <<"stub", "no_pub_fn">> /\ ~parse_ok(inv[j].user_code)

\* C2: every request sent has mode release, crate type binary and tests off,
\* whatever the flags; channel and edition are those of the parsed flags.
C2_RequestForcedRelease ==
    \A i \in Invocations :
        \A k \in DOMAIN inv[i].requests :
            LET req == inv[i].requests[k]
                raw == inv[i].flags
            IN  /\ req.mode = "release" /\ req.crate_type = "binary" /\ req.tests = FALSE
                /\ req.channel = IF "channel" \in DOMAIN raw /\ raw["channel"] \in Channels
                                 THEN raw["channel"] ELSE DefaultFlags.channel
                /\ req.edition = IF "edition" \in DOMAIN raw /\ raw["edition"] \in Editions
                                 THEN raw["edition"] ELSE DefaultFlags.edition

C2_Witness ==
    \E i \in Invocations :
        /\ inv[i].requests # <<>>
        /\ "mode" \in DOMAIN inv[i].flags /\ inv[i].flags["mode"] = "debug"
        /\ inv[i].requests[1].channel = "stable"

\* C3: once the backend call has failed (send error or undecodable body) the
\* invocation has returned that error, has sent exactly one request, has not
\* post-processed stderr and has delivered no report.
C3_TransportFailureEnds ==
    \A i \in Invocations :
        /\ Len(inv[i].requests) <= 1
        /\ inv[i].transport \in {"Err_send", "Err_decode"} =>
               /\ inv[i].pc = "returned" /\ inv[i].ret = inv[i].transport
               /\ Len(inv[i].requests) = 1
               /\ inv[i].result = NoResult
               /\ ~inv[i].report.delivered
               /\ inv[i].said = <<"stub">>
               /\ \A k \in DOMAIN inv[i].flag_parse_errors : inv[i].flag_parse_errors[k] # Hint

C3_Witness ==
    \E i, j \in Invocations :
        /\ inv[i].ret = "Err_send" /\ inv[i].pc = "returned"
        /\ inv[j].ret = "Err_decode" /\ inv[j].pc = "returned"

\* C7 as stated: an invocation returns an error only if the backend request or
\* the decoding of its response failed.
C7_OnlyTransportFails ==
    \A i \in Invocations :
        inv[i].ret \notin {"pending", "Ok"} => inv[i].ret \in {"Err_send", "Err_decode"}

\* C7 amended: an invocation returns an error only if the backend request or
\* the decoding of its response failed, or if one of its chat sends failed
\* (stub message, short-circuit message, final reply); extraction, the match,
\* synthesis, composition, flag parsing and stderr formatting never fail.
C7_FailureSources ==
    \A i \in Invocations :
        LET r == inv[i]
        IN  /\ r.ret = "pending" <=> r.pc # "returned"
            /\ r.ret \in {"pending", "Ok", "Err_send", "Err_decode", "Err_chat"}
            /\ r.ret \in {"Err_send", "Err_decode"} => r.transport = r.ret
            /\ r.ret = "Err_chat" =>
                   \/ r.said = <<>>
                   \/ r.said = <<"stub">> /\ ShortInput(r) /\ r.requests = <<>>
                   \/ r.said = <<"stub">> /\ r.transport = "ok"
            /\ r.ret = "Ok" => Len(r.said) = 2

C7_Witness ==
    \E i, j \in Invocations :
        /\ inv[i].ret = "Err_chat" /\ inv[i].transport = "ok"
        /\ inv[j].ret = "Ok" /\ ~parse_ok(inv[j].user_code)

\* C8: whatever the interleaving, what an invocation extracts, synthesizes,
\* composes, sends and reports is a function of its own code block, its own
\* flags and the body returned for its own request, and the shared Data is
\* never written.
C8_InvocationScoped ==
    /\ data = Data_new
    /\ \A i \in Invocations :
        LET r == inv[i]
            own_names == extract_pub_fn_names_from_user_code(r.user_code)
            own_code  == hoise_crate_attributes(r.user_code, after_crate_attrs,
                                                synthesize(own_names))
            own_flags == parse_flags(r.flags)
            own_hint  == IF Contains_black_box(r.user_code) THEN <<>> ELSE <<Hint>>
        IN  /\ r.pub_fn_names \in {<<>>, own_names}
            /\ r.after_code \in {<<>>, synthesize(own_names)}
            /\ r.code \in {<<>>, own_code}
            /\ \A k \in DOMAIN r.requests :
                   r.requests[k] = PlaygroundRequest(own_code, own_flags.flags)
            /\ r.report.delivered =>
                   r.report = Reply(PlayResult(r.body.success, r.body.stdout,
                                        format_play_eval_stderr(r.body.stderr,
                                                                own_flags.flags.warn)),
                                    own_code, own_flags.flags,
                                    own_flags.errors \o own_hint)

C8_Witness ==
    /\ inv["a"].report.delivered /\ inv["b"].report.delivered
    /\ inv["a"].user_code # inv["b"].user_code
    /\ inv["a"].flags # inv["b"].flags

(***************************************************************************)
(* Properties of the pure functions (SpecSynth).                           *)
(***************************************************************************)
PubFnAt(text) == {k \in DOMAIN text : text[k].kind = "fn" /\ text[k].vis = "pub"}

\* C6: for a text that parses the result is exactly the names of the top-level
\* public function items, in declaration order, duplicates kept, whatever their
\* parameters; for a text that does not parse it is the empty list.
C6_ExtractExact ==
    epc # "extract" =>
        IF \E k \in DOMAIN code :
               \/ code[k].kind = "garbage"
               \/ code[k].kind = "inner_attr" /\ \E m \in 1..k : code[m].kind # "inner_attr"
        THEN names = <<>>
        ELSE /\ Len(names) = Cardinality(PubFnAt(code))
             /\ \A k \in PubFnAt(code) :
                    names[Cardinality({m \in PubFnAt(code) : m <= k})] = code[k].ident

C6_Witness ==
    /\ epc # "extract"
    /\ code = <<PubMul, PubMod, PubMul>>
    /\ names = <<"mul", "mul">>

\* C4: for a name list of length n >= 2 the lines between bench(&[ and ]); are
\* exactly n registrations, the k-th one ("f_k", f_k): none added, dropped,
\* merged or reordered.
C4_RegistrationsInOrder ==
    epc = "done" =>
        LET IsReg(line) == line.kind = "reg"
            regs == SelectSeq(driver, IsReg)
            n == Len(names)
        IN  /\ n >= 2
            /\ Len(regs) = n
            /\ Len(driver) = n + 5
            /\ driver[3] = Text("bench(&[") /\ driver[n + 4] = Text("]);")
            /\ \A k \in 1..n :
                   /\ driver[3 + k] = regs[k]
                   /\ regs[k].label = names[k] /\ regs[k].function = names[k]

C4_Witness ==
    /\ epc = "done"
    /\ names = <<"add", "mul", "add">>

(***************************************************************************)
(* SpecBench: the generated bench function (BENCH_FUNCTION, lines 15-60).  *)
(* Instants are counted in ticks, TicksPerSec to the second.  A sample is  *)
(* kept as the tick count of its chunk: the sample in seconds is that      *)
(* count over TicksPerSec * CHUNK_SIZE, and f64 arithmetic is modelled as  *)
(* exact arithmetic on these fractions.                                    *)
(***************************************************************************)
CHUNK_SIZE     == 1000
TIME_BUDGET    == 5
OUTLIER_FACTOR == 3

\* resolution of the clock, and the rounds after which the loop is cut off
TicksPerSec == 1
MaxRounds   == 5

\* what Instant::now() can have advanced by since the last read
IdleAdvance  == {0, 1}
ChunkAdvance == {0, 1, 10}

\* the help text's example: pub fn add, pub fn mul
ExampleFunctions == <<"add", "mul">>

\* Duration::as_secs
as_secs(ticks) == ticks \div TicksPerSec

RECURSIVE sum(_)
sum(chunk_times) ==
    IF chunk_times = <<>> THEN 0 ELSE Head(chunk_times) + sum(Tail(chunk_times))

\* lines 42-50 for a list of total `total` and length `len`; a deviation
\* time - mean_time is kept as time * len - total, that is, times len.
RECURSIVE deviation_loop(_, _, _, _)
deviation_loop(rest, total, len, acc) ==
    IF rest = <<>> THEN acc
    ELSE LET time == Head(rest)
         IN  IF time * len < total * OUTLIER_FACTOR
             THEN deviation_loop(Tail(rest), total, len,
                      [ssd |-> acc.ssd + (time * len - total) * (time * len - total),
                       n   |-> acc.n + 1])
             ELSE deviation_loop(Tail(rest), total, len, acc)

\* mutant: the deviations are taken around the mean of the surviving samples
aggregate_filtered_mean(chunk_times) ==
    LET total == sum(chunk_times)
        len   == Len(chunk_times)
        Kept(time) == time * len < total * OUTLIER_FACTOR
        kept  == SelectSeq(chunk_times, Kept)
        m     == Len(kept)
        D(k)  == (kept[k] * m - sum(kept)) * (kept[k] * m - sum(kept))
        RECURSIVE add(_)
        add(k) == IF k = 0 THEN 0 ELSE D(k) + add(k - 1)
    IN  [total |-> total, len |-> len,
         ssd |-> IF m = 0 THEN 0 ELSE (add(m) * len * len) \div (m * m), n |-> m]

\* lines 40-51: mean_time is total / len, standard_deviation is
\* sqrt(ssd / n) / len; n = 0 is the division 0.0 / 0 of line 51.
aggregate(chunk_times) ==
    LET total == sum(chunk_times)
        len   == Len(chunk_times)
        acc   == deviation_loop(chunk_times, total, len, [ssd |-> 0, n |-> 0])
    IN  [total |-> total, len |-> len, ssd |-> acc.ssd, n |-> acc.n]

\* mutant: the time budget is tested after every chunk
loop_test_each_chunk(i, n) == [pc |-> "loop_test", fi |-> i]

\* lines 30 and 36-37: the next function of the round, or the next round
after_push(i, n) ==
    IF i < n THEN [pc |-> "chunk_start", fi |-> i + 1]
    ELSE [pc |-> "loop_test", fi |-> 1]

InitBench ==
    /\ functions = ExampleFunctions
    /\ functions_chunk_times = <<>> /\ now = 0 /\ start = 0 /\ chunk_begin = 0
    /\ fi = 1 /\ calls = [i \in DOMAIN ExampleFunctions |-> 0]
    /\ push_log = <<>> /\ printed = <<>> /\ bpc = "warm_up"
    /\ PipeIdle /\ SynthIdle

\* lines 20-28
WarmUp ==
    /\ bpc = "warm_up"
    /\ calls' = [i \in DOMAIN functions |-> calls[i] + CHUNK_SIZE]
    /\ functions_chunk_times' = [i \in DOMAIN functions |-> <<>>]
    /\ \E adv \in IdleAdvance : now' = now + adv
    /\ start' = now'
    /\ bpc' = "loop_test" /\ fi' = 1
    /\ UNCHANGED <<functions, chunk_begin, push_log, printed, pipeVars, synthVars>>

\* line 29
LoopTest ==
    /\ bpc = "loop_test"
    /\ \E adv \in IdleAdvance :
        /\ now' = now + adv
        /\ IF as_secs(now' - start) < TIME_BUDGET
           THEN /\ Len(functions_chunk_times[1]) < MaxRounds
                /\ bpc' = "chunk_start" /\ fi' = 1
           ELSE bpc' = "aggregate" /\ fi' = 1
    /\ UNCHANGED <<functions, functions_chunk_times, start, chunk_begin, calls, push_log,
                   printed, pipeVars, synthVars>>

\* lines 31-34
ChunkStart ==
    /\ bpc = "chunk_start"
    /\ \E adv \in IdleAdvance : now' = now + adv
    /\ chunk_begin' = now'
    /\ calls' = [calls EXCEPT ![fi] = @ + CHUNK_SIZE]
    /\ bpc' = "chunk_end"
    /\ UNCHANGED <<functions, functions_chunk_times, start, fi, push_log, printed,
                   pipeVars, synthVars>>

\* line 35
ChunkEnd ==
    /\ bpc = "chunk_end"
    /\ \E adv \in ChunkAdvance : now' = now + adv
    /\ functions_chunk_times' =
           [functions_chunk_times EXCEPT ![fi] = Append(@, now' - chunk_begin)]
    /\ push_log' = Append(push_log, fi)
    /\ bpc' = after_push(fi, Len(functions)).pc
    /\ fi' = after_push(fi, Len(functions)).fi
    /\ UNCHANGED <<functions, start, chunk_begin, calls, printed, pipeVars, synthVars>>

\* lines 39-59, one function
Aggregate ==
    /\ bpc = "aggregate"
    /\ printed' = Append(printed,
                         [function_name |-> functions[fi]] @@
                             aggregate(functions_chunk_times[fi]))
    /\ fi' = fi + 1
    /\ bpc' = IF fi = Len(functions) THEN "done" ELSE "aggregate"
    /\ UNCHANGED <<functions, functions_chunk_times, now, start, chunk_begin, calls,
                   push_log, pipeVars, synthVars>>

NextBench == WarmUp \/ LoopTest \/ ChunkStart \/ ChunkEnd \/ Aggregate

SpecBench == InitBench /\ [][NextBench]_vars

(***************************************************************************)
(* Properties of the generated bench function (SpecBench).                 *)
(***************************************************************************)
RECURSIVE SumOver(_, _)
SumOver(S, samples) ==
    IF S = {} THEN 0
    ELSE LET m == CHOOSE x \in S : TRUE
         IN  samples[m] + SumOver(S \ {m}, samples)

RECURSIVE SquaresOver(_, _, _)
SquaresOver(S, samples, len) ==
    IF S = {} THEN 0
    ELSE LET m == CHOOSE x \in S : TRUE
             d == samples[m] * len - SumOver(DOMAIN samples, samples)
         IN  d * d + SquaresOver(S \ {m}, samples, len)

Survivors(samples) ==
    {m \in DOMAIN samples :
        samples[m] * Len(samples) < OUTLIER_FACTOR * SumOver(DOMAIN samples, samples)}

\* C5: for every function reported, the mean is the sum of all its samples
\* over their number; a sample counts iff it is strictly below 3 x that mean;
\* the deviation is sqrt(sum of squared distances of the counted samples to
\* that same mean / their number).  For [1,1,1,1,10]: mean 14/5, the 10 is
\* left out, deviation 9/5 (its square 81/25), not 0.
C5_DeviationAroundOriginalMean ==
    \A k \in DOMAIN printed :
        LET samples == functions_chunk_times[k]
            line == printed[k]
        IN  /\ line.function_name = functions[k]
            /\ line.total = SumOver(DOMAIN samples, samples)
            /\ line.len = Len(samples)
            /\ line.n = Cardinality(Survivors(samples))
            /\ line.ssd = SquaresOver(Survivors(samples), samples, Len(samples))
            /\ samples = <<1, 1, 1, 1, 10>> =>
                   /\ line.total * 5 = 14 * line.len
                   /\ 5 \notin Survivors(samples) /\ line.n = 4
                   /\ line.ssd * 25 = 81 * line.n * line.len * line.len
                   /\ line.ssd # 0

C5_Witness ==
    /\ bpc = "done"
    /\ functions_chunk_times[1] = <<1, 1, 1, 1, 10>>
    /\ printed[1].n = 4

\* C9: between rounds and from aggregation on, every function has the same
\* number of samples; samples are pushed in round-robin order of the list, so
\* the k-th sample of a function follows the k-th of every earlier function and
\* precedes every (k+1)-th; each sample is one chunk of CHUNK_SIZE calls.
C9_RoundRobinSamples ==
    bpc \notin {"idle", "warm_up"} =>
        LET n == Len(functions)
            Count(i) == Cardinality({m \in DOMAIN push_log : push_log[m] = i})
            InChunk(i) == IF bpc = "chunk_end" /\ fi = i THEN 1 ELSE 0
        IN  /\ bpc \in {"loop_test", "aggregate", "done"} =>
                \A i, j \in 1..n :
                    Len(functions_chunk_times[i]) = Len(functions_chunk_times[j])
            /\ \A m \in DOMAIN push_log : push_log[m] = ((m - 1) % n) + 1
            /\ \A i \in 1..n :
                /\ Len(functions_chunk_times[i]) = Count(i)
                /\ calls[i] = CHUNK_SIZE * (1 + Count(i) + InChunk(i))

C9_Witness ==
    /\ bpc = "aggregate"
    /\ push_log = <<1, 2, 1, 2, 1, 2>>

\* C10: whenever a deviation is computed, the number n of samples that passed
\* the filter is at least 1 (and so is the number of samples).
C10_DivisorPositive ==
    \A k \in DOMAIN printed : printed[k].n >= 1 /\ printed[k].len >= 1

====
